---- MODULE Spec2Model ----
(***************************************************************************)
(* A model of the two notebooks of                                         *)
(* s1_development_environment/exercise_files:                              *)
(*   - "Training Neural Networks" (autograd, one training step, the        *)
(*     training loop), specified by TrainSpec;                             *)
(*   - "Saving and Loading Models" (state dicts, checkpoints), specified   *)
(*     by SaveSpec.                                                        *)
(* A notebook is a list of cells run by one kernel.  The kernel's state is *)
(* the set of global bindings (model, optimizer, state_dict, ...), the     *)
(* file checkpoint.pth, and the position inside the cell being run.  Any   *)
(* cell may be run whenever the kernel is idle; `doc` records whether the  *)
(* cells have been run in document order so far.                           *)
(*                                                                         *)
(* Tensor contents are abstracted to one number per tensor, taken modulo   *)
(* NVals (a parameter of fc_model.Network in addition carries a name of    *)
(* the contents it was given by initialisation or training); tensor shapes *)
(* are kept exactly.                                                       *)
(***************************************************************************)
EXTENDS Integers, Sequences, FiniteSets, TLC

VARIABLES
    model,       \* the global `model`: a network object, or unbound
    optimizer,   \* the global `optimizer`: "unbound", "model" (it holds the
                 \* parameters of the object bound to `model`) or "stale"
                 \* (it holds the parameters of an object `model` no longer names)
    state_dict,  \* the global `state_dict`: a loaded dict, or unbound
    file,        \* the file checkpoint.pth
    defs,        \* TRUE once `def load_checkpoint` has been executed
    pc,          \* per cell: "idle", or the statement the cell is at
    doc,         \* document-order tracking of the cells run so far
    last,        \* the output of the most recent cell: which cell, which error
    images,      \* the globals `images`, `labels`: the current batch
    output,      \* the global `output`: the result of the forward pass
    loss,        \* the global `loss`, with its autograd graph
    epoch,       \* the number of iterations of `for _ in range(epochs)` begun
    dataiter,    \* the batches the iterator of the inner `for` still holds
    running_loss,\* the global `running_loss`
    stdout,      \* the "Training loss" lines printed by the loop cell
    calls,       \* the framework calls made on the current batch, in order
    steps,       \* the optimizer steps the training loop has taken
    stepped,     \* per sample, the optimizer steps taken on it in this epoch
    epoch_losses,\* the loss.item() values of this epoch, in order
    x,           \* the global `x`: a tensor that requires grad, with its .grad
    y,           \* the global `y`: x**2, with its graph
    z,           \* the global `z`: y.mean(), with its graph
    optim        \* TRUE once the name `optim` is bound (from torch import optim)

saveVars == <<state_dict, file, defs>>

trainVars ==
    <<images, output, loss, epoch, dataiter, running_loss, stdout, calls,
      steps, stepped, epoch_losses>>

autoVars == <<x, y, z>>

vars == <<model, optimizer, optim, pc, doc, last, saveVars, trainVars, autoVars>>

(***************************************************************************)
(* Bounds and program constants.                                           *)
(***************************************************************************)
NVals == 2          \* abstract tensor contents are numbers modulo NVals
NSamples == 3       \* the size of the training set
BatchSize == 2      \* batch_size of the DataLoader (64 in the notebook)
MaxPasses == 2      \* the backward passes that are followed on one .grad

Epochs == 5
Pixels == <<1, 28, 28>>

InputSize == 784
OutputSize == 10

TrainedLayers == <<512, 256, 128>>

\* a variant of the "Try this" cell that rebuilds the trained architecture
SameLayers == <<512, 256, 128>>

OtherLayers == <<400, 200, 100>>

Seeds == 0 .. NVals - 1

(***************************************************************************)
(* Python dicts are sequences of entries (insertion order is kept).  An    *)
(* entry holds a tensor (shape, data), an int, a list of ints or a dict.   *)
(***************************************************************************)
TensorEntry(k, shape, data) ==
    [key |-> k, kind |-> "tensor", int |-> 0, list |-> <<>>,
     shape |-> shape, data |-> data, dict |-> <<>>]

IntEntry(k, n) ==
    [key |-> k, kind |-> "int", int |-> n, list |-> <<>>,
     shape |-> <<>>, data |-> 0, dict |-> <<>>]

ListEntry(k, l) ==
    [key |-> k, kind |-> "list", int |-> 0, list |-> l,
     shape |-> <<>>, data |-> 0, dict |-> <<>>]

DictEntry(k, d) ==
    [key |-> k, kind |-> "dict", int |-> 0, list |-> <<>>,
     shape |-> <<>>, data |-> 0, dict |-> d]

Keys(d) == [i \in 1 .. Len(d) |-> d[i].key]

HasKey(d, k) == \E i \in 1 .. Len(d) : d[i].key = k

Get(d, k) == d[CHOOSE i \in 1 .. Len(d) : d[i].key = k]

(***************************************************************************)
(* fc_model.Network(input_size, output_size, hidden_layers): a list of     *)
(* Linear hidden layers and a Linear output layer (the dropout module has  *)
(* no parameters).  The freshly initialised contents are drawn from the    *)
(* random number generator: `seed` stands for its state.                   *)
(***************************************************************************)
Linear(in, out, seed, k) ==
    [in_features |-> in, out_features |-> out,
     weight |-> seed * NVals + ((2 * k) % NVals),
     bias |-> seed * NVals + ((2 * k + 1) % NVals)]

Network(input_size, output_size, hidden_layers, seed) ==
    LET n == Len(hidden_layers)
    IN [bound |-> TRUE,
        hidden_layers |->
            [i \in 1 .. n |->
                Linear(IF i = 1 THEN input_size ELSE hidden_layers[i - 1],
                       hidden_layers[i], seed, i - 1)],
        output |-> Linear(hidden_layers[n], output_size, seed, n)]

NoModel ==
    [bound |-> FALSE, hidden_layers |-> <<>>,
     output |-> [in_features |-> 0, out_features |-> 0, weight |-> 0, bias |-> 0]]

Str(i) ==
    CASE i = 0 -> "0" [] i = 1 -> "1" [] i = 2 -> "2" [] i = 3 -> "3"
      [] i = 4 -> "4" [] OTHER -> "n"

\* [each.out_features for each in model.hidden_layers]
HiddenSizes(m) == [i \in 1 .. Len(m.hidden_layers) |-> m.hidden_layers[i].out_features]

LinearEntries(prefix, l) ==
    << TensorEntry(prefix \o ".weight", <<l.out_features, l.in_features>>, l.weight),
       TensorEntry(prefix \o ".bias", <<l.out_features>>, l.bias) >>

RECURSIVE HiddenEntries(_, _)
HiddenEntries(m, i) ==
    IF i > Len(m.hidden_layers) THEN <<>>
    ELSE LinearEntries("hidden_layers." \o Str(i - 1), m.hidden_layers[i])
            \o HiddenEntries(m, i + 1)

\* model.state_dict(): the parameters, in module order
StateDict(m) == HiddenEntries(m, 1) \o LinearEntries("output", m.output)

(***************************************************************************)
(* torch.save / torch.load.  The file holds the pickled object, in which   *)
(* every tensor is replaced by the key of its storage ("0", "1", ... in    *)
(* the order the pickler meets the tensors), and the storages themselves.  *)
(***************************************************************************)
RECURSIVE Tensors(_)
Tensors(d) ==
    IF d = <<>> THEN <<>>
    ELSE LET e == Head(d)
         IN (CASE e.kind = "tensor" -> <<e.data>>
               [] e.kind = "dict" -> Tensors(e.dict)
               [] OTHER -> <<>>) \o Tensors(Tail(d))

RECURSIVE Pickle(_, _)
Pickle(d, written) ==
    IF d = <<>> THEN <<>>
    ELSE LET e == Head(d)
             p == CASE e.kind = "tensor" -> [e EXCEPT !.data = written]
                    [] e.kind = "dict" -> [e EXCEPT !.dict = Pickle(e.dict, written)]
                    [] OTHER -> e
         IN <<p>> \o Pickle(Tail(d), written + Len(Tensors(<<e>>)))

RECURSIVE Unpickle(_, _)
Unpickle(p, storages) ==
    IF p = <<>> THEN <<>>
    ELSE LET e == Head(p)
             o == CASE e.kind = "tensor" -> [e EXCEPT !.data = storages[e.data + 1]]
                    [] e.kind = "dict" -> [e EXCEPT !.dict = Unpickle(e.dict, storages)]
                    [] OTHER -> e
         IN <<o>> \o Unpickle(Tail(p), storages)

NoFile == [exists |-> FALSE, pkl |-> <<>>, storages |-> <<>>]

\* torch.save(obj, "checkpoint.pth")
TorchSave(obj) == [exists |-> TRUE, pkl |-> Pickle(obj, 0), storages |-> Tensors(obj)]

\* torch.load("checkpoint.pth")
TorchLoad(f) == Unpickle(f.pkl, f.storages)

(***************************************************************************)
(* Module.load_state_dict(sd), strict.  Every parameter whose key is in sd *)
(* with a tensor of the parameter's shape is copied; every other parameter *)
(* is left as it is and reported, as is every key of sd the module does    *)
(* not have.  Any report makes the call raise RuntimeError, after the      *)
(* copies.                                                                 *)
(***************************************************************************)
Fits(sd, e) ==
    /\ HasKey(sd, e.key)
    /\ Get(sd, e.key).kind = "tensor"
    /\ Get(sd, e.key).shape = e.shape

Compatible(m, sd) ==
    /\ \A i \in 1 .. Len(StateDict(m)) : Fits(sd, StateDict(m)[i])
    /\ \A j \in 1 .. Len(sd) : HasKey(StateDict(m), sd[j].key)

CopyParam(sd, e) == IF Fits(sd, e) THEN Get(sd, e.key).data ELSE e.data

CopyLinear(sd, prefix, l) ==
    LET es == LinearEntries(prefix, l)
    IN [l EXCEPT !.weight = CopyParam(sd, es[1]), !.bias = CopyParam(sd, es[2])]

LoadStateDict(m, sd) ==
    [ok |-> Compatible(m, sd),
     model |->
        [m EXCEPT
            !.hidden_layers =
                [i \in 1 .. Len(m.hidden_layers) |->
                    CopyLinear(sd, "hidden_layers." \o Str(i - 1), m.hidden_layers[i])],
            !.output = CopyLinear(sd, "output", m.output)]]

(***************************************************************************)
(* The checkpoint dict of the save cell, and load_checkpoint.              *)
(***************************************************************************)
\* a variant of the save cell that writes the widths of the first network
\* instead of reading them from `model`
CheckpointDictFixedLayers(m) ==
    << IntEntry("input_size", InputSize),
       IntEntry("output_size", OutputSize),
       ListEntry("hidden_layers", TrainedLayers),
       DictEntry("state_dict", StateDict(m)) >>

CheckpointDict(m) ==
    << IntEntry("input_size", InputSize),
       IntEntry("output_size", OutputSize),
       ListEntry("hidden_layers", HiddenSizes(m)),
       DictEntry("state_dict", StateDict(m)) >>

CheckpointKeys == <<"input_size", "output_size", "hidden_layers", "state_dict">>

\* load_checkpoint(filepath): the error it raises ("none" if it returns) and
\* the model it returns
LoadCheckpoint(f, seed) ==
    IF ~f.exists THEN [error |-> "FileNotFoundError", model |-> NoModel]
    ELSE LET checkpoint == TorchLoad(f)
         IN IF \E i \in 1 .. Len(CheckpointKeys) : ~HasKey(checkpoint, CheckpointKeys[i])
            THEN [error |-> "KeyError", model |-> NoModel]
            ELSE LET m == Network(Get(checkpoint, "input_size").int,
                                  Get(checkpoint, "output_size").int,
                                  Get(checkpoint, "hidden_layers").list, seed)
                     r == LoadStateDict(m, Get(checkpoint, "state_dict").dict)
                 IN IF r.ok THEN [error |-> "none", model |-> r.model]
                    ELSE [error |-> "RuntimeError", model |-> NoModel]

(***************************************************************************)
(* The training set and its DataLoader (batch_size, shuffle=True): every   *)
(* iterator draws a permutation of the samples and cuts it into batches,   *)
(* the last of which may be smaller.  A batch is the set of its samples.   *)
(***************************************************************************)
Range(s) == {s[i] : i \in 1 .. Len(s)}

Samples == 1 .. NSamples

\* a variant loader with drop_last=True: a smaller final batch is not yielded
RECURSIVE BatchesDropLast(_)
BatchesDropLast(perm) ==
    IF Len(perm) < BatchSize THEN <<>>
    ELSE << Range(SubSeq(perm, 1, BatchSize)) >>
            \o BatchesDropLast(SubSeq(perm, BatchSize + 1, Len(perm)))

RECURSIVE Batches(_)
Batches(perm) ==
    IF Len(perm) = 0 THEN <<>>
    ELSE IF Len(perm) <= BatchSize THEN << Range(perm) >>
    ELSE << Range(SubSeq(perm, 1, BatchSize)) >>
            \o Batches(SubSeq(perm, BatchSize + 1, Len(perm)))

\* len(trainloader)
NumBatches == (NSamples + BatchSize - 1) \div BatchSize

\* the iterators iter(trainloader) can return
Iterators == {Batches(perm) : perm \in Permutations(Samples)}

RECURSIVE Product(_)
Product(shape) == IF shape = <<>> THEN 1 ELSE Head(shape) * Product(Tail(shape))

\* images, labels = next(dataiter): a batch as the loader yields it
Batch(samples) ==
    [bound |-> TRUE, samples |-> samples,
     shape |-> <<Cardinality(samples)>> \o Pixels]

\* images.view(rows, -1)
View(img, rows) == [img EXCEPT !.shape = <<rows, Product(img.shape) \div rows>>]

\* images.resize_(rows, cols)
Resize(img, rows, cols) == [img EXCEPT !.shape = <<rows, cols>>]

NoImages == [bound |-> FALSE, samples |-> {}, shape |-> <<>>]

(***************************************************************************)
(* nn.Sequential(Linear(784, 128), ReLU, Linear(128, 64), ReLU,            *)
(* Linear(64, 10), LogSoftmax): six parameter tensors, each with its       *)
(* contents and its gradient (<<>> is None, <<g>> a gradient tensor), and  *)
(* `passes`, the batches of the backward passes that have been made on the *)
(* parameters since their gradients were None, in the order of the passes. *)
(***************************************************************************)
\* a variant parameter that is created with a gradient tensor of zeros
ParamZeroGrad(shape, data) == [shape |-> shape, data |-> data % NVals, grad |-> <<0>>]

Param(shape, data) == [shape |-> shape, data |-> data % NVals, grad |-> <<>>]

Sequential(seed) ==
    [bound |-> TRUE,
     params |-> << Param(<<128, InputSize>>, seed), Param(<<128>>, seed + 1),
                   Param(<<64, 128>>, seed + 2), Param(<<64>>, seed + 3),
                   Param(<<OutputSize, 64>>, seed + 4), Param(<<OutputSize>>, seed + 5) >>,
     passes |-> <<>>]

NoSequential == [bound |-> FALSE, params |-> <<>>, passes |-> <<>>]

RECURSIVE Sum(_)
Sum(S) == IF S = {} THEN 0 ELSE LET n == CHOOSE e \in S : TRUE IN n + Sum(S \ {n})

RECURSIVE SumSeq(_)
SumSeq(q) == IF q = <<>> THEN 0 ELSE Head(q) + SumSeq(Tail(q))

\* the gradient of the loss of a batch with respect to parameter k, at the
\* parameters of m: a function of the batch and of the current contents
Gradient(m, samples, k) == (m.params[k].data * Sum(samples) + k) % NVals

NoOutput == [bound |-> FALSE, samples |-> {}, logits |-> 0, grads |-> <<>>]

\* output = model(images): the logits, and the graph back to the parameters
Forward(m, img) ==
    [bound |-> TRUE, samples |-> img.samples,
     logits |-> (SumSeq([k \in 1 .. Len(m.params) |-> m.params[k].data])
                    + Sum(img.samples)) % NVals,
     grads |-> [k \in 1 .. Len(m.params) |-> Gradient(m, img.samples, k)]]

NoLoss ==
    [bound |-> FALSE, samples |-> {}, item |-> 0, grads |-> <<>>,
     used |-> FALSE, current |-> FALSE]

\* loss = criterion(output, labels)
Criterion(out) ==
    [bound |-> TRUE, samples |-> out.samples,
     item |-> (out.logits + Cardinality(out.samples)) % NVals,
     grads |-> out.grads, used |-> FALSE, current |-> TRUE]

\* the record of more than MaxPasses backward passes (no batch is empty)
Unfollowed == << {} >>

\* the record q of backward passes after one more pass, on the batch b
Passed(q, b) ==
    IF q # Unfollowed /\ Len(q) < MaxPasses THEN Append(q, b) ELSE Unfollowed

\* loss.backward(): every gradient of the graph is added to the parameter's
\* .grad (a None .grad counts as zero)
Accumulate(p, g) ==
    [p EXCEPT !.grad = IF p.grad = <<>> THEN <<g>> ELSE <<(p.grad[1] + g) % NVals>>]

\* a variant backward pass that also moves the parameters against the
\* gradients
BackwardAndUpdate(m, l) ==
    [m EXCEPT !.params =
        [k \in 1 .. Len(m.params) |->
            [Accumulate(m.params[k], l.grads[k]) EXCEPT
                !.data = (m.params[k].data + NVals - l.grads[k]) % NVals]],
              !.passes = Passed(m.passes, l.samples)]

Backward(m, l) ==
    [m EXCEPT !.params = [k \in 1 .. Len(m.params) |-> Accumulate(m.params[k], l.grads[k])],
              !.passes = Passed(m.passes, l.samples)]

\* a variant zero_grad that leaves the gradients as they are
KeepGrad(m) == m

\* optimizer.zero_grad(): the gradients are reset to None
ZeroGrad(m) ==
    [m EXCEPT !.params = [k \in 1 .. Len(m.params) |-> [m.params[k] EXCEPT !.grad = <<>>]],
              !.passes = <<>>]

\* optimizer.step() of SGD: every parameter that has a gradient moves
\* against it
SGDStep(m) ==
    [m EXCEPT !.params =
        [k \in 1 .. Len(m.params) |->
            IF m.params[k].grad = <<>> THEN m.params[k]
            ELSE [m.params[k] EXCEPT
                    !.data = (m.params[k].data + NVals - m.params[k].grad[1]) % NVals]]]

(***************************************************************************)
(* The kernel: one cell at a time, each cell statement by statement.       *)
(***************************************************************************)
SaveCells ==
    << "create", "train", "show", "save_sd", "load_sd", "load_into",
       "mismatch", "save_ckpt", "def_load", "call_load" >>

\* the kernel starts a cell only when no cell is being run
KernelIdle == \A c \in DOMAIN pc : pc[c] = "idle"

\* document-order tracking after cell c of the notebook `cells` has been run
Ran(cells, c) ==
    IF doc.inOrder /\ doc.pos < Len(cells) /\ cells[doc.pos + 1] = c
    THEN [inOrder |-> TRUE, pos |-> doc.pos + 1]
    ELSE [inOrder |-> FALSE, pos |-> 0]

\* a cell that is one step: it starts on an idle kernel and ends at once
Atomic(cells, c, err) ==
    /\ KernelIdle
    /\ pc' = pc
    /\ doc' = Ran(cells, c)
    /\ last' = [cell |-> c, error |-> err]

\* the first statement of a longer cell: the cell's old output is cleared
Begin(cells, c, next) ==
    /\ KernelIdle
    /\ pc' = [pc EXCEPT ![c] = next]
    /\ doc' = Ran(cells, c)
    /\ last' = [cell |-> c, error |-> "none"]

\* the last statement of a longer cell, or the statement that raises
End(c, at, err) ==
    /\ pc[c] = at
    /\ pc' = [pc EXCEPT ![c] = "idle"]
    /\ last' = [cell |-> c, error |-> err]
    /\ UNCHANGED doc

Unbound == [bound |-> FALSE, dict |-> <<>>]

\* rebinding `model` leaves the optimizer with the old object's parameters
Rebound(opt) == IF opt = "model" THEN "stale" ELSE opt

(***************************************************************************)
(* The contents of the parameters of fc_model.Network.  A network is       *)
(* initialised from the random number generator and changed by training    *)
(* on shuffled batches, so a new network and a network that has just been  *)
(* trained have contents that no tensor in the kernel or in the file has.  *)
(* The contents of a parameter are NVals times a name of such contents     *)
(* (the `seed` of Linear), plus a number below NVals for the parameter.    *)
(* Only which tensors have the same contents matters, so the names are     *)
(* given in the order in which the contents are met in `model`, then in    *)
(* `state_dict`, then in the file: 0, 1, ...                               *)
(***************************************************************************)
\* the contents of all tensors of a model, a state_dict binding and a file
Data(m, sd, f) ==
    (IF m.bound THEN Tensors(StateDict(m)) ELSE <<>>)
        \o Tensors(sd.dict) \o f.storages

\* the names in a sequence of contents, each once, in the order they are met
RECURSIVE Met(_)
Met(data) ==
    IF data = <<>> THEN <<>>
    ELSE LET before == Met(SubSeq(data, 1, Len(data) - 1))
             name == data[Len(data)] \div NVals
         IN IF name \in Range(before) THEN before ELSE Append(before, name)

\* the contents d under the names given in the order `met`
Named(d, met) ==
    ((CHOOSE i \in 1 .. Len(met) : met[i] = d \div NVals) - 1) * NVals + (d % NVals)

NamedLinear(l, met) ==
    [l EXCEPT !.weight = Named(l.weight, met), !.bias = Named(l.bias, met)]

NamedModel(m, met) ==
    IF ~m.bound THEN m
    ELSE [m EXCEPT
            !.hidden_layers = [i \in 1 .. Len(m.hidden_layers) |->
                                    NamedLinear(m.hidden_layers[i], met)],
            !.output = NamedLinear(m.output, met)]

RECURSIVE NamedDict(_, _)
NamedDict(d, met) ==
    IF d = <<>> THEN <<>>
    ELSE LET e == Head(d)
             o == CASE e.kind = "tensor" -> [e EXCEPT !.data = Named(e.data, met)]
                    [] e.kind = "dict" -> [e EXCEPT !.dict = NamedDict(e.dict, met)]
                    [] OTHER -> e
         IN <<o>> \o NamedDict(Tail(d), met)

NamedFile(f, met) ==
    [f EXCEPT !.storages = [i \in 1 .. Len(f.storages) |-> Named(f.storages[i], met)]]

\* the step binds `model` to m and `state_dict` to sd and leaves f in the file
Holds(m, sd, f) ==
    LET met == Met(Data(m, sd, f))
    IN /\ model' = NamedModel(m, met)
       /\ state_dict' = [sd EXCEPT !.dict = NamedDict(sd.dict, met)]
       /\ file' = NamedFile(f, met)

\* the name of contents that no tensor held has
Fresh == Len(Met(Data(model, state_dict, file)))

\* fc_model.train(model, ..., optimizer): the optimizer updates the
\* parameters it was built with; g is the name of the contents it leaves
TrainedLinear(l, g) ==
    [l EXCEPT !.weight = g * NVals + (l.weight % NVals),
              !.bias = g * NVals + (l.bias % NVals)]

Trained(m, g) ==
    [m EXCEPT
        !.hidden_layers = [i \in 1 .. Len(m.hidden_layers) |->
                                TrainedLinear(m.hidden_layers[i], g)],
        !.output = TrainedLinear(m.output, g)]

(***************************************************************************)
(* The cells of "Saving and Loading Models".                               *)
(***************************************************************************)
\* model = fc_model.Network(784, 10, [512, 256, 128]); criterion; optimizer
CreateNetwork ==
    /\ Atomic(SaveCells, "create", "none")
    /\ Holds(Network(InputSize, OutputSize, TrainedLayers, Fresh), state_dict, file)
    /\ optimizer' = "model"
    /\ UNCHANGED <<optim, defs, trainVars, autoVars>>

\* fc_model.train(model, trainloader, testloader, criterion, optimizer, epochs=2)
Train ==
    \/ /\ ~model.bound \/ optimizer = "unbound"
       /\ Atomic(SaveCells, "train", "NameError")
       /\ UNCHANGED <<optim, model, optimizer, state_dict, file, defs, trainVars, autoVars>>
    \/ /\ model.bound /\ optimizer = "stale"
       /\ Atomic(SaveCells, "train", "none")
       /\ UNCHANGED <<optim, model, optimizer, state_dict, file, defs, trainVars, autoVars>>
    \/ /\ model.bound /\ optimizer = "model"
       /\ Atomic(SaveCells, "train", "none")
       /\ Holds(Trained(model, Fresh), state_dict, file)
       /\ UNCHANGED <<optim, optimizer, defs, trainVars, autoVars>>

\* print(model); print(model.state_dict().keys())
ShowStateDict ==
    /\ Atomic(SaveCells, "show", IF model.bound THEN "none" ELSE "NameError")
    /\ UNCHANGED <<optim, model, optimizer, state_dict, file, defs, trainVars, autoVars>>

\* a variant save cell that writes the state dict to another path than the
\* one the load cell reads
SaveStateDictElsewhere ==
    /\ Atomic(SaveCells, "save_sd", IF model.bound THEN "none" ELSE "NameError")
    /\ UNCHANGED <<optim, model, optimizer, state_dict, file, defs, trainVars, autoVars>>

\* torch.save(model.state_dict(), "checkpoint.pth")
SaveStateDict ==
    /\ Atomic(SaveCells, "save_sd", IF model.bound THEN "none" ELSE "NameError")
    /\ Holds(model, state_dict,
             IF model.bound THEN TorchSave(StateDict(model)) ELSE file)
    /\ UNCHANGED <<optim, optimizer, defs, trainVars, autoVars>>

\* state_dict = torch.load("checkpoint.pth")
LoadFile ==
    \/ /\ file.exists
       /\ Begin(SaveCells, "load_sd", "print")
       /\ Holds(model, [bound |-> TRUE, dict |-> TorchLoad(file)], file)
       /\ UNCHANGED <<optim, optimizer, defs, trainVars, autoVars>>
    \/ /\ ~file.exists
       /\ Atomic(SaveCells, "load_sd", "FileNotFoundError")
       /\ UNCHANGED <<optim, model, optimizer, state_dict, file, defs, trainVars, autoVars>>

\* print(state_dict.keys())
PrintKeys ==
    /\ End("load_sd", "print", "none")
    /\ UNCHANGED <<optim, model, optimizer, state_dict, file, defs, trainVars, autoVars>>

\* model.load_state_dict(state_dict)
LoadIntoModel ==
    \/ /\ ~model.bound \/ ~state_dict.bound
       /\ Atomic(SaveCells, "load_into", "NameError")
       /\ UNCHANGED <<optim, model, optimizer, state_dict, file, defs, trainVars, autoVars>>
    \/ /\ model.bound /\ state_dict.bound
       /\ LET r == LoadStateDict(model, state_dict.dict)
          IN /\ Atomic(SaveCells, "load_into", IF r.ok THEN "none" ELSE "RuntimeError")
             /\ Holds(r.model, state_dict, file)
       /\ UNCHANGED <<optim, optimizer, defs, trainVars, autoVars>>

\* a variant "Try this" cell whose network takes inputs of another size
MismatchCreateOtherInput ==
    /\ Begin(SaveCells, "mismatch", "load")
    /\ Holds(Network(OutputSize, OutputSize, OtherLayers, Fresh), state_dict, file)
    /\ optimizer' = Rebound(optimizer)
    /\ UNCHANGED <<optim, defs, trainVars, autoVars>>

\* model = fc_model.Network(784, 10, [400, 200, 100])
MismatchCreate ==
    /\ Begin(SaveCells, "mismatch", "load")
    /\ Holds(Network(InputSize, OutputSize, OtherLayers, Fresh), state_dict, file)
    /\ optimizer' = Rebound(optimizer)
    /\ UNCHANGED <<optim, defs, trainVars, autoVars>>

\* model.load_state_dict(state_dict), in the same cell
MismatchLoad ==
    \/ /\ ~state_dict.bound
       /\ End("mismatch", "load", "NameError")
       /\ UNCHANGED <<optim, model, optimizer, state_dict, file, defs, trainVars, autoVars>>
    \/ /\ state_dict.bound
       /\ LET r == LoadStateDict(model, state_dict.dict)
          IN /\ End("mismatch", "load", IF r.ok THEN "none" ELSE "RuntimeError")
             /\ Holds(r.model, state_dict, file)
       /\ UNCHANGED <<optim, optimizer, defs, trainVars, autoVars>>

\* checkpoint = {...}; torch.save(checkpoint, "checkpoint.pth")
SaveCheckpoint ==
    /\ Atomic(SaveCells, "save_ckpt", IF model.bound THEN "none" ELSE "NameError")
    /\ Holds(model, state_dict,
             IF model.bound THEN TorchSave(CheckpointDict(model)) ELSE file)
    /\ UNCHANGED <<optim, optimizer, defs, trainVars, autoVars>>

\* def load_checkpoint(filepath): ...
DefLoadCheckpoint ==
    /\ Atomic(SaveCells, "def_load", "none")
    /\ defs' = TRUE
    /\ UNCHANGED <<optim, model, optimizer, state_dict, file, trainVars, autoVars>>

\* model = load_checkpoint("checkpoint.pth"); print(model)
CallLoadCheckpoint ==
    \/ /\ ~defs
       /\ Atomic(SaveCells, "call_load", "NameError")
       /\ UNCHANGED <<optim, model, optimizer, state_dict, file, defs, trainVars, autoVars>>
    \/ LET r == LoadCheckpoint(file, Fresh)
       IN /\ defs
          /\ Atomic(SaveCells, "call_load", r.error)
          /\ Holds(IF r.error = "none" THEN r.model ELSE model, state_dict, file)
          /\ optimizer' = IF r.error = "none" THEN Rebound(optimizer) ELSE optimizer
          /\ UNCHANGED <<optim, defs, trainVars, autoVars>>

\* a tensor name that is not bound
NoTensor == [bound |-> FALSE, data |-> <<>>, grad |-> <<>>, passes |-> 0]

\* a result name that is not bound
NoResult == [bound |-> FALSE, current |-> FALSE, fresh |-> FALSE, ofY |-> FALSE]

\* x, y and z before any of the autograd cells has run
NoAutograd ==
    /\ x = NoTensor
    /\ y = NoResult
    /\ z = NoResult

\* the training notebook's globals before any of its cells has run
NoTraining ==
    /\ images = NoImages
    /\ output = NoOutput
    /\ loss = NoLoss
    /\ epoch = 0
    /\ dataiter = <<>>
    /\ running_loss = 0
    /\ stdout = [lines |-> 0, tail |-> [running_loss |-> 0, len |-> 0]]
    /\ calls = <<>>
    /\ steps = 0
    /\ stepped = [s \in Samples |-> 0]
    /\ epoch_losses = <<>>

SaveInit ==
    /\ model = NoModel
    /\ optimizer = "unbound"
    /\ optim = TRUE
    /\ state_dict = Unbound
    /\ file = NoFile
    /\ defs = FALSE
    /\ pc = [c \in Range(SaveCells) |-> "idle"]
    /\ doc = [inOrder |-> TRUE, pos |-> 0]
    /\ last = [cell |-> "", error |-> "none"]
    /\ NoTraining
    /\ NoAutograd

SaveNext ==
    \/ CreateNetwork
    \/ Train
    \/ ShowStateDict
    \/ SaveStateDict
    \/ LoadFile
    \/ PrintKeys
    \/ LoadIntoModel
    \/ MismatchCreate
    \/ MismatchLoad
    \/ SaveCheckpoint
    \/ DefLoadCheckpoint
    \/ CallLoadCheckpoint

SaveSpec == SaveInit /\ [][SaveNext]_vars

(***************************************************************************)
(* The cells of "Training Neural Networks".                                *)
(***************************************************************************)
\* The cells from "Loss and Autograd together" on.  The two loss cells before
\* them ("Losses in PyTorch") consist of the statements of "build" and bind
\* nothing that "build" does not rebind.
TrainCells ==
    << "build", "backward", "optim", "single", "step", "loop", "predict" >>

\* a statement of a longer cell that is neither its first nor its last
Goto(c, at, next) ==
    /\ pc[c] = at
    /\ pc' = [pc EXCEPT ![c] = next]
    /\ UNCHANGED <<doc, last>>

\* the framework calls of one training pass of the loop, in its order
TrainingPass == <<"forward", "loss", "zero_grad", "backward", "step">>

\* the calls of a record other than zero_grad
WithoutZeroGrad(q) == SelectSeq(q, LAMBDA c : c # "zero_grad")

\* a record that is the beginning of one training pass: forward, loss,
\* backward, step in this order, with at most one zero_grad among them
InPassOrder(q) ==
    LET p == WithoutZeroGrad(q)
        order == WithoutZeroGrad(TrainingPass)
    IN /\ Len(p) <= Len(order)
       /\ p = SubSeq(order, 1, Len(p))
       /\ Len(q) <= Len(p) + 1

\* the record of the framework calls made on the current batch: the calls
\* in their order while they are the beginning of one training pass, and
\* this mark from the first call that is not
OutOfOrder == << "out of order" >>

Called(call) ==
    IF calls # OutOfOrder /\ InPassOrder(Append(calls, call))
    THEN Append(calls, call)
    ELSE OutOfOrder

\* model = nn.Sequential(...); criterion = ...; dataiter = iter(trainloader);
\* images, labels = next(dataiter); images = images.view(images.shape[0], -1);
\* logits = model(images); loss = criterion(logits, labels)
BuildIn(cells) ==
    \E seed \in Seeds, it \in Iterators :
        LET m == Sequential(seed)
            img == View(Batch(it[1]), Batch(it[1]).shape[1])
        IN /\ Atomic(cells, "build", "none")
           /\ model' = m
           /\ optimizer' = Rebound(optimizer)
           /\ images' = img
           /\ loss' = Criterion(Forward(m, img))
           /\ calls' = <<"forward", "loss">>
           /\ UNCHANGED <<optim, output, epoch, dataiter, running_loss, stdout, steps,
                          stepped, epoch_losses, saveVars, autoVars>>

Build == BuildIn(TrainCells)

\* print(model[0].weight.grad); loss.backward(); print(model[0].weight.grad)
\* The first print needs `model`, the backward pass needs `loss`; the pass
\* fills the .grad of the parameters the graph of `loss` was built on, which
\* are those of `model` only while `model` has not been rebound since.
BackwardIn(cells) ==
    \/ /\ ~model.bound \/ ~loss.bound
       /\ Atomic(cells, "backward", "NameError")
       /\ UNCHANGED <<optim, model, optimizer, saveVars, trainVars, autoVars>>
    \/ /\ model.bound /\ loss.bound /\ loss.used
       /\ Atomic(cells, "backward", "RuntimeError")
       /\ UNCHANGED <<optim, model, optimizer, saveVars, trainVars, autoVars>>
    \/ /\ model.bound /\ loss.bound /\ ~loss.used
       /\ Atomic(cells, "backward", "none")
       /\ model' = IF loss.current THEN Backward(model, loss) ELSE model
       /\ loss' = [loss EXCEPT !.used = TRUE]
       /\ calls' = Called("backward")
       /\ UNCHANGED <<optim, optimizer, images, output, epoch, dataiter, running_loss,
                      stdout, steps, stepped, epoch_losses, saveVars, autoVars>>

BackwardCell == BackwardIn(TrainCells)

\* from torch import optim;
\* optimizer = optim.SGD(model.parameters(), lr=0.01)
OptimCell ==
    /\ Atomic(TrainCells, "optim", IF model.bound THEN "none" ELSE "NameError")
    /\ optim' = TRUE
    /\ optimizer' = IF model.bound THEN "model" ELSE optimizer
    /\ UNCHANGED <<model, saveVars, trainVars, autoVars>>

\* print(model[0].weight); dataiter = iter(trainloader);
\* images, labels = next(dataiter); images.resize_(64, 784)
SingleFetch ==
    \/ /\ ~model.bound
       /\ Atomic(TrainCells, "single", "NameError")
       /\ UNCHANGED <<optim, model, optimizer, saveVars, trainVars, autoVars>>
    \/ \E it \in Iterators :
          /\ model.bound
          /\ Begin(TrainCells, "single", "zero_grad")
          /\ images' = Resize(Batch(it[1]), BatchSize, InputSize)
          /\ calls' = <<>>
          /\ UNCHANGED <<optim, model, optimizer, output, loss, epoch, dataiter,
                         running_loss, stdout, steps, stepped, epoch_losses, saveVars, autoVars>>

\* a variant single-step cell without optimizer.zero_grad()
SingleWithoutZeroGrad ==
    /\ Goto("single", "zero_grad", "forward")
    /\ UNCHANGED <<optim, model, optimizer, saveVars, trainVars, autoVars>>

\* optimizer.zero_grad()
SingleZeroGrad ==
    \/ /\ optimizer = "unbound"
       /\ End("single", "zero_grad", "NameError")
       /\ UNCHANGED <<optim, model, optimizer, saveVars, trainVars, autoVars>>
    \/ /\ optimizer # "unbound"
       /\ Goto("single", "zero_grad", "forward")
       /\ model' = IF optimizer = "model" THEN ZeroGrad(model) ELSE model
       /\ calls' = Called("zero_grad")
       /\ UNCHANGED <<optim, optimizer, images, output, loss, epoch, dataiter,
                      running_loss, stdout, steps, stepped, epoch_losses, saveVars, autoVars>>

\* output = model(images)
SingleForward ==
    /\ Goto("single", "forward", "loss")
    /\ output' = Forward(model, images)
    /\ calls' = Called("forward")
    /\ UNCHANGED <<optim, model, optimizer, images, loss, epoch, dataiter, running_loss,
                   stdout, steps, stepped, epoch_losses, saveVars, autoVars>>

\* loss = criterion(output, labels)
SingleLoss ==
    /\ Goto("single", "loss", "backward")
    /\ loss' = Criterion(output)
    /\ calls' = Called("loss")
    /\ UNCHANGED <<optim, model, optimizer, images, output, epoch, dataiter, running_loss,
                   stdout, steps, stepped, epoch_losses, saveVars, autoVars>>

\* loss.backward(); print(model[0].weight.grad)
SingleBackward ==
    /\ End("single", "backward", "none")
    /\ model' = Backward(model, loss)
    /\ loss' = [loss EXCEPT !.used = TRUE]
    /\ calls' = Called("backward")
    /\ UNCHANGED <<optim, optimizer, images, output, epoch, dataiter, running_loss,
                   stdout, steps, stepped, epoch_losses, saveVars, autoVars>>

\* optimizer.step(); print(model[0].weight)
StepCell ==
    \/ /\ optimizer = "unbound"
       /\ Atomic(TrainCells, "step", "NameError")
       /\ UNCHANGED <<optim, model, optimizer, saveVars, trainVars, autoVars>>
    \/ /\ optimizer # "unbound"
       /\ Atomic(TrainCells, "step", "none")
       /\ model' = IF optimizer = "model" THEN SGDStep(model) ELSE model
       /\ calls' = Called("step")
       /\ UNCHANGED <<optim, optimizer, images, output, loss, epoch, dataiter,
                      running_loss, stdout, steps, stepped, epoch_losses, saveVars, autoVars>>

\* model = nn.Sequential(...); criterion = nn.NLLLoss();
\* optimizer = optim.SGD(model.parameters(), lr=0.003); epochs = 5
\* With the name `optim` unbound the third statement raises NameError: `model`
\* is rebound already, the optimizer is not built and the loop is not entered.
LoopBegin ==
    \E seed \in Seeds :
        /\ model' = Sequential(seed)
        /\ loss' = [loss EXCEPT !.current = FALSE]
        /\ IF optim
           THEN /\ Begin(TrainCells, "loop", "epoch")
                /\ optimizer' = "model"
                /\ epoch' = 0
                /\ steps' = 0
                /\ stdout' = [lines |-> 0,
                              tail |-> [running_loss |-> 0, len |-> 0]]
                /\ calls' = <<>>
           ELSE /\ Atomic(TrainCells, "loop", "NameError")
                /\ optimizer' = Rebound(optimizer)
                /\ UNCHANGED <<epoch, steps, stdout, calls>>
        /\ UNCHANGED <<optim, images, output, dataiter, running_loss,
                       stepped, epoch_losses, saveVars, autoVars>>

\* a variant outer loop with `running_loss = 0` moved out of it
LoopEpochNoReset ==
    \/ \E it \in Iterators :
          /\ epoch < Epochs
          /\ Goto("loop", "epoch", "fetch")
          /\ epoch' = epoch + 1
          /\ running_loss' = IF epoch = 0 THEN 0 ELSE running_loss
          /\ dataiter' = it
          /\ stepped' = [s \in Samples |-> 0]
          /\ epoch_losses' = <<>>
          /\ UNCHANGED <<optim, model, optimizer, images, output, loss, stdout, calls,
                         steps, saveVars, autoVars>>
    \/ /\ epoch = Epochs
       /\ End("loop", "epoch", "none")
       /\ UNCHANGED <<optim, model, optimizer, saveVars, trainVars, autoVars>>

\* for _ in range(epochs): running_loss = 0; for images, labels in trainloader:
LoopEpoch ==
    \/ \E it \in Iterators :
          /\ epoch < Epochs
          /\ Goto("loop", "epoch", "fetch")
          /\ epoch' = epoch + 1
          /\ running_loss' = 0
          /\ dataiter' = it
          /\ stepped' = [s \in Samples |-> 0]
          /\ epoch_losses' = <<>>
          /\ UNCHANGED <<optim, model, optimizer, images, output, loss, stdout, calls,
                         steps, saveVars, autoVars>>
    \/ /\ epoch = Epochs
       /\ End("loop", "epoch", "none")
       /\ UNCHANGED <<optim, model, optimizer, saveVars, trainVars, autoVars>>

\* a variant inner loop that is left by `break` after its last batch, so
\* that its else branch does not run
LoopFetchBreak ==
    \/ /\ dataiter # <<>>
       /\ Goto("loop", "fetch", "forward")
       /\ images' = View(Batch(Head(dataiter)), Batch(Head(dataiter)).shape[1])
       /\ dataiter' = Tail(dataiter)
       /\ calls' = <<>>
       /\ UNCHANGED <<optim, model, optimizer, output, loss, epoch, running_loss, stdout,
                      steps, stepped, epoch_losses, saveVars, autoVars>>
    \/ /\ dataiter = <<>>
       /\ Goto("loop", "fetch", "epoch")
       /\ UNCHANGED <<optim, model, optimizer, saveVars, trainVars, autoVars>>

\* the inner `for`: the next batch, flattened by images.view(images.shape[0], -1),
\* or, when the iterator is exhausted, the else branch:
\* print(f"Training loss: {running_loss / len(trainloader)}")
LoopFetch ==
    \/ /\ dataiter # <<>>
       /\ Goto("loop", "fetch", "forward")
       /\ images' = View(Batch(Head(dataiter)), Batch(Head(dataiter)).shape[1])
       /\ dataiter' = Tail(dataiter)
       /\ calls' = <<>>
       /\ UNCHANGED <<optim, model, optimizer, output, loss, epoch, running_loss, stdout,
                      steps, stepped, epoch_losses, saveVars, autoVars>>
    \/ /\ dataiter = <<>>
       /\ Goto("loop", "fetch", "epoch")
       /\ stdout' = [lines |-> stdout.lines + 1,
                     tail |-> [running_loss |-> running_loss, len |-> NumBatches]]
       /\ UNCHANGED <<optim, model, optimizer, images, output, loss, epoch, dataiter,
                      running_loss, calls, steps, stepped, epoch_losses, saveVars, autoVars>>

\* output = model(images)
LoopForward ==
    /\ Goto("loop", "forward", "loss")
    /\ output' = Forward(model, images)
    /\ calls' = Called("forward")
    /\ UNCHANGED <<optim, model, optimizer, images, loss, epoch, dataiter, running_loss,
                   stdout, steps, stepped, epoch_losses, saveVars, autoVars>>

\* loss = criterion(output, labels)
LoopLoss ==
    /\ Goto("loop", "loss", "zero_grad")
    /\ loss' = Criterion(output)
    /\ calls' = Called("loss")
    /\ UNCHANGED <<optim, model, optimizer, images, output, epoch, dataiter, running_loss,
                   stdout, steps, stepped, epoch_losses, saveVars, autoVars>>

\* optimizer.zero_grad()
LoopZeroGrad ==
    /\ Goto("loop", "zero_grad", "backward")
    /\ model' = ZeroGrad(model)
    /\ calls' = Called("zero_grad")
    /\ UNCHANGED <<optim, optimizer, images, output, loss, epoch, dataiter, running_loss,
                   stdout, steps, stepped, epoch_losses, saveVars, autoVars>>

\* a variant loop body without the backward pass
LoopBackwardSkipped ==
    /\ Goto("loop", "backward", "step")
    /\ UNCHANGED <<optim, model, optimizer, saveVars, trainVars, autoVars>>

\* loss.backward()
LoopBackward ==
    /\ Goto("loop", "backward", "step")
    /\ model' = Backward(model, loss)
    /\ loss' = [loss EXCEPT !.used = TRUE]
    /\ calls' = Called("backward")
    /\ UNCHANGED <<optim, optimizer, images, output, epoch, dataiter, running_loss,
                   stdout, steps, stepped, epoch_losses, saveVars, autoVars>>

\* optimizer.step()
LoopStep ==
    /\ Goto("loop", "step", "acc")
    /\ model' = SGDStep(model)
    /\ calls' = Called("step")
    /\ steps' = steps + 1
    /\ stepped' = [s \in Samples |-> stepped[s] + IF s \in loss.samples THEN 1 ELSE 0]
    /\ UNCHANGED <<optim, optimizer, images, output, loss, epoch, dataiter, running_loss,
                   stdout, epoch_losses, saveVars, autoVars>>

\* running_loss += loss.item()
LoopAcc ==
    /\ Goto("loop", "acc", "fetch")
    /\ running_loss' = running_loss + loss.item
    /\ epoch_losses' = Append(epoch_losses, loss.item)
    /\ UNCHANGED <<optim, model, optimizer, images, output, loss, epoch, dataiter, stdout,
                   calls, steps, stepped, saveVars, autoVars>>

\* dataiter = iter(trainloader); images, labels = next(dataiter);
\* img = images[0].view(1, 784); with torch.no_grad(): logps = model(img);
\* ps = torch.exp(logps); helper.view_classify(img.view(1, 28, 28), ps)
\* `images` is rebound to the batch as the loader gives it (not flattened)
\* before `model` is needed; under no_grad the forward pass builds no graph.
\* (The forward call is recorded as made, as by the other cells that call
\* the model; with `model` unbound the cell stops at it.)
PredictCell ==
    \E it \in Iterators :
        /\ Atomic(TrainCells, "predict",
                  IF model.bound THEN "none" ELSE "NameError")
        /\ images' = Batch(it[1])
        /\ UNCHANGED <<optim, model, optimizer, output, loss, epoch, dataiter,
                       running_loss, stdout, steps, stepped, epoch_losses,
                       saveVars, autoVars>>
        /\ calls' = IF model.bound THEN <<"forward">> ELSE <<>>

TrainInit ==
    /\ model = NoSequential
    /\ optimizer = "unbound"
    /\ optim = FALSE
    /\ pc = [c \in Range(TrainCells) |-> "idle"]
    /\ doc = [inOrder |-> TRUE, pos |-> 0]
    /\ last = [cell |-> "", error |-> "none"]
    /\ state_dict = Unbound
    /\ file = NoFile
    /\ defs = FALSE
    /\ NoTraining
    /\ NoAutograd

\* the statements of the training-loop cell after its first
LoopRun ==
    \/ LoopEpoch
    \/ LoopFetch
    \/ LoopForward
    \/ LoopLoss
    \/ LoopZeroGrad
    \/ LoopBackward
    \/ LoopStep
    \/ LoopAcc

TrainNext ==
    \/ Build
    \/ BackwardCell
    \/ OptimCell
    \/ SingleFetch
    \/ SingleZeroGrad
    \/ SingleForward
    \/ SingleLoss
    \/ SingleBackward
    \/ StepCell
    \/ LoopBegin
    \/ LoopRun
    \/ PredictCell

TrainSpec == TrainInit /\ [][TrainNext]_vars

\* the kernel goes on with the cell it is running
TrainFairSpec == TrainSpec /\ WF_vars(LoopRun)

(***************************************************************************)
(* The cells of the sections "Autograd" and "Loss and Autograd together"   *)
(* of "Training Neural Networks".  The elements of x are integers, the     *)
(* gradients exact fractions.  Of a tensor computed from an x that is no   *)
(* longer bound to `x` only the graph is kept, not the contents.           *)
(***************************************************************************)
AutogradCells ==
    << "x", "y", "grad_fn", "z", "print_grad", "z_backward", "build", "backward" >>

\* the values torch.randn draws the elements of x from
Elements == {-1, 2}

\* x = torch.randn(2, 2, ...): the shape, and the number of elements
XShape == <<2, 2>>

Numel == Product(XShape)


Abs(i) == IF i < 0 THEN -i ELSE i

RECURSIVE Gcd(_, _)
Gcd(a, b) == IF b = 0 THEN a ELSE Gcd(b, a % b)

\* the fraction n / d (d > 0), in lowest terms
Frac(n, d) ==
    LET g == Gcd(Abs(n), d) IN [num |-> n \div g, den |-> d \div g]

FracAdd(a, b) == Frac(a.num * b.den + b.num * a.den, a.den * b.den)

FracMul(a, b) == Frac(a.num * b.num, a.den * b.den)

\* 2 * x / torch.numel(x)
TwoXOverN(data) == [i \in DOMAIN data |-> Frac(2 * data[i], Numel)]

\* a variant MeanBackward that hands the incoming gradient on undivided
SumBackward(data) == [i \in DOMAIN data |-> Frac(1, 1)]

\* MeanBackward0: the gradient of y.mean() with respect to each element of y
MeanBackward(data) == [i \in DOMAIN data |-> Frac(1, Len(data))]

\* PowBackward0: the gradient of x**2 with respect to x, times the gradient
\* that comes in
PowBackward(data, g) == [i \in DOMAIN data |-> FracMul(g[i], Frac(2 * data[i], 1))]

\* z.backward() at x: the gradient is added to x.grad (None counts as zero)
AccumulateGrad(t, g) ==
    [t EXCEPT !.grad = IF t.grad = <<>> THEN <<g>>
                       ELSE << [i \in DOMAIN g |-> FracAdd(t.grad[1][i], g[i])] >>,
              !.passes = t.passes + 1]

\* x = torch.randn(2, 2, requires_grad=True); print(x)
XCell ==
    \E data \in [1 .. Numel -> Elements] :
        /\ Atomic(AutogradCells, "x", "none")
        /\ x' = [bound |-> TRUE, data |-> data, grad |-> <<>>, passes |-> 0]
        /\ y' = [y EXCEPT !.current = FALSE]
        /\ z' = [z EXCEPT !.current = FALSE]
        /\ UNCHANGED <<optim, model, optimizer, saveVars, trainVars>>

\* y = x**2; print(y)
YCell ==
    /\ Atomic(AutogradCells, "y", IF x.bound THEN "none" ELSE "NameError")
    /\ y' = IF x.bound
            THEN [bound |-> TRUE, current |-> TRUE, fresh |-> TRUE, ofY |-> TRUE]
            ELSE y
    /\ z' = IF x.bound THEN [z EXCEPT !.ofY = FALSE] ELSE z
    /\ UNCHANGED <<optim, model, optimizer, x, saveVars, trainVars>>

\* print(y.grad_fn)
GradFnCell ==
    /\ Atomic(AutogradCells, "grad_fn", IF y.bound THEN "none" ELSE "NameError")
    /\ UNCHANGED <<optim, model, optimizer, saveVars, trainVars, autoVars>>

\* z = y.mean(); print(z)
ZCell ==
    /\ Atomic(AutogradCells, "z", IF y.bound THEN "none" ELSE "NameError")
    /\ z' = IF y.bound
            THEN [bound |-> TRUE, current |-> y.current, fresh |-> y.fresh, ofY |-> TRUE]
            ELSE z
    /\ UNCHANGED <<optim, model, optimizer, x, y, saveVars, trainVars>>

\* print(x.grad)
PrintGradCell ==
    /\ Atomic(AutogradCells, "print_grad", IF x.bound THEN "none" ELSE "NameError")
    /\ UNCHANGED <<optim, model, optimizer, saveVars, trainVars, autoVars>>

\* z.backward(); print(x.grad); print(2 * x / torch.numel(x))
ZBackwardCell ==
    \/ /\ ~z.bound
       /\ Atomic(AutogradCells, "z_backward", "NameError")
       /\ UNCHANGED <<optim, model, optimizer, saveVars, trainVars, autoVars>>
    \/ /\ z.bound /\ ~z.fresh
       /\ Atomic(AutogradCells, "z_backward", "RuntimeError")
       /\ UNCHANGED <<optim, model, optimizer, saveVars, trainVars, autoVars>>
    \/ /\ z.bound /\ z.fresh
       /\ z.current => x.passes < MaxPasses
       /\ Atomic(AutogradCells, "z_backward", "none")
       /\ x' = IF z.current
               THEN AccumulateGrad(x, PowBackward(x.data, MeanBackward(x.data)))
               ELSE x
       /\ z' = [z EXCEPT !.fresh = FALSE]
       /\ y' = IF z.ofY THEN [y EXCEPT !.fresh = FALSE] ELSE y
       /\ UNCHANGED <<optim, model, optimizer, saveVars, trainVars>>

AutogradBuild == BuildIn(AutogradCells)

AutogradBackward == BackwardIn(AutogradCells)

AutogradInit ==
    /\ model = NoSequential
    /\ optimizer = "unbound"
    /\ optim = FALSE
    /\ pc = [c \in Range(AutogradCells) |-> "idle"]
    /\ doc = [inOrder |-> TRUE, pos |-> 0]
    /\ last = [cell |-> "", error |-> "none"]
    /\ state_dict = Unbound
    /\ file = NoFile
    /\ defs = FALSE
    /\ NoTraining
    /\ NoAutograd

AutogradNext ==
    \/ XCell
    \/ YCell
    \/ GradFnCell
    \/ ZCell
    \/ PrintGradCell
    \/ ZBackwardCell
    \/ AutogradBuild
    \/ AutogradBackward

AutogradSpec == AutogradInit /\ [][AutogradNext]_vars

(***************************************************************************)
(* Claims about "Saving and Loading Models" (checked under SaveSpec).      *)
(***************************************************************************)
\* the kernel is idle and cell c was the last one to finish
After(c) == KernelIdle /\ last.cell = c

\* the file holds a checkpoint dict with architecture metadata
IsCheckpoint(f) ==
    /\ f.exists
    /\ \A i \in 1 .. Len(CheckpointKeys) : HasKey(TorchLoad(f), CheckpointKeys[i])

\* the architecture of a network: input size, hidden-layer widths, output size
Architecture(m) ==
    [input_size |-> m.hidden_layers[1].in_features,
     hidden_layers |-> HiddenSizes(m),
     output_size |-> m.output.out_features]

\* C1: checkpoint round trip.  Right after the metadata checkpoint of the
\* network bound to `model` is written, load_checkpoint on that file returns
\* (for every initialisation of the rebuilt network) a model of the same
\* input size, output size and hidden-layer widths whose state dict equals
\* the saved one; and whenever load_checkpoint has been called on a
\* checkpoint file it did not raise the shape-mismatch RuntimeError and
\* `model` holds the architecture and the state dict stored in the file.
C1_CheckpointRoundTrip ==
    /\ After("save_ckpt") /\ last.error = "none" =>
          \A seed \in Seeds :
              LET r == LoadCheckpoint(file, seed)
              IN /\ r.error = "none"
                 /\ Architecture(r.model) = Architecture(model)
                 /\ StateDict(r.model) = StateDict(model)
    /\ After("call_load") => last.error # "RuntimeError"
    /\ After("call_load") /\ last.error # "NameError" /\ IsCheckpoint(file) =>
          /\ last.error = "none"
          /\ Architecture(model) =
                [input_size |-> Get(TorchLoad(file), "input_size").int,
                 hidden_layers |-> Get(TorchLoad(file), "hidden_layers").list,
                 output_size |-> Get(TorchLoad(file), "output_size").int]
          /\ StateDict(model) = Get(TorchLoad(file), "state_dict").dict

\* C1 witness: load_checkpoint has rebuilt a network whose widths are not
\* those of the first network of the notebook
C1_Witness ==
    /\ After("call_load")
    /\ last.error = "none"
    /\ HiddenSizes(model) = OtherLayers

\* the state dict of the architecture the notebook trains, contents aside
IsTrainedShape(sd) ==
    /\ Keys(sd) = Keys(StateDict(Network(InputSize, OutputSize, TrainedLayers, 0)))
    /\ Compatible(Network(InputSize, OutputSize, TrainedLayers, 0), sd)

\* C2: model.load_state_dict(state_dict) succeeds exactly when the keys and
\* tensor shapes of state_dict are those of the model, and then the model
\* holds the contents of state_dict; in the "Try this" cell, where the model
\* is built with widths [400, 200, 100] and state_dict is a state dict of a
\* [512, 256, 128] network, it raises, and the cell ends with the error.
C2_LoadNeedsSameArchitecture ==
    /\ (After("load_into") \/ After("mismatch")) /\ last.error # "NameError" =>
          /\ last.error \in {"none", "RuntimeError"}
          /\ last.error = "none" <=> Compatible(model, state_dict.dict)
          /\ last.error = "none" => StateDict(model) = state_dict.dict
    /\ After("mismatch") /\ state_dict.bound /\ IsTrainedShape(state_dict.dict) =>
          last.error = "RuntimeError"

\* C2 witness: the "Try this" cell has raised on a [512, 256, 128] state dict
C2_Witness ==
    /\ After("mismatch")
    /\ state_dict.bound
    /\ IsTrainedShape(state_dict.dict)
    /\ last.error = "RuntimeError"
    /\ HiddenSizes(model) = OtherLayers

\* C3 (as claimed): with the cells run in document order, the checkpoint the
\* metadata-checkpoint cell writes describes the trained network: its
\* hidden_layers are [512, 256, 128] and its state_dict is the one the
\* trained network had (which `state_dict` still holds), and
\* load_checkpoint returns that network.
C3_CheckpointRebuildsTrainedModel ==
    /\ doc.inOrder /\ doc.pos >= 8 /\ KernelIdle =>
          /\ IsCheckpoint(file)
          /\ Get(TorchLoad(file), "hidden_layers").list = TrainedLayers
          /\ Get(TorchLoad(file), "state_dict").dict = state_dict.dict
    /\ doc.inOrder /\ doc.pos = 10 /\ KernelIdle =>
          /\ last.error = "none"
          /\ HiddenSizes(model) = TrainedLayers
          /\ StateDict(model) = state_dict.dict

\* the keys the notebook prints for model.state_dict() and, after torch.load,
\* for state_dict (the stored outputs of the two cells)
ShownKeys ==
    << "hidden_layers.0.weight", "hidden_layers.0.bias",
       "hidden_layers.1.weight", "hidden_layers.1.bias",
       "hidden_layers.2.weight", "hidden_layers.2.bias",
       "output.weight", "output.bias" >>

stmt == pc["loop"]

InBody == stmt \in {"forward", "loss", "zero_grad", "backward", "step", "acc"}

\* the gradient tensors of the current batch's loss at the model's parameters
BatchGradient(k) == << Gradient(model, images.samples, k) >>

\* C4: in every batch iteration of the training loop zero_grad runs after
\* the previous step and before backward: when backward is about to run
\* every gradient is None and no step has been made on this batch, and when
\* step is about to run every parameter's gradient is the gradient of the
\* current batch's loss alone, whatever the earlier batches left.
C4_ZeroGradEveryPass ==
    /\ stmt = "backward" =>
          /\ calls = <<"forward", "loss", "zero_grad">>
          /\ \A k \in DOMAIN model.params : model.params[k].grad = <<>>
    /\ stmt = "step" =>
          /\ loss.samples = images.samples
          /\ \A k \in DOMAIN model.params :
                /\ model.params[k].grad = << loss.grads[k] >>
                /\ model.params[k].grad = BatchGradient(k)

\* C4 witness: step is about to run on a later batch of an epoch, after a
\* step on an earlier batch, with a gradient that is not zero
C4_Witness ==
    /\ stmt = "step"
    /\ steps % NumBatches # 0
    /\ \E k \in DOMAIN model.params : model.params[k].grad # <<0>>

\* the framework calls on the current batch, zero_grad aside
Pass == SelectSeq(calls, LAMBDA c : c # "zero_grad")

PassOrder == <<"forward", "loss", "backward", "step">>

\* C5: forward, loss, backward, step, each once and in that order.  In a
\* batch iteration of the loop the calls made so far are always a prefix of
\* that order and are all four when the iteration ends; step runs only on
\* a loss of the current batch whose backward has completed; and with the
\* cells run in document order the single-step demonstration (the cell that
\* ends with loss.backward() and the cell with optimizer.step()) has made
\* the same four calls in that order on one batch.
C5_ForwardLossBackwardStep ==
    /\ InBody =>
          /\ Len(Pass) <= Len(PassOrder)
          /\ Pass = SubSeq(PassOrder, 1, Len(Pass))
    /\ stmt = "step" =>
          /\ Pass = SubSeq(PassOrder, 1, 3)
          /\ loss.used
          /\ loss.samples = images.samples
          /\ \A k \in DOMAIN model.params : model.params[k].grad # <<>>
    /\ stmt = "acc" => Pass = PassOrder
    /\ doc.inOrder /\ doc.pos = 5 /\ KernelIdle =>
          /\ last.error = "none"
          /\ Pass = PassOrder
          /\ loss.used
          /\ loss.samples = images.samples

\* C5 witness: a batch iteration of the second epoch has made its step
C5_Witness ==
    /\ stmt = "acc"
    /\ epoch = 2
    /\ Pass = PassOrder

\* C6: an epoch is one pass over the whole training set.  Within an epoch no
\* sample takes part in more than one step, when the epoch's loss is printed
\* every sample has taken part in exactly one, and the steps made are one
\* per batch of the loader; every batch in the loop body, a smaller final
\* one included, has shape (number of its samples, 784), and the model's
\* output is computed from that batch.
C6_EpochCoversDataset ==
    /\ stmt # "idle" => \A s \in Samples : stepped[s] <= 1
    /\ stmt = "fetch" /\ dataiter = <<>> => \A s \in Samples : stepped[s] = 1
    /\ stmt = "epoch" /\ epoch >= 1 =>
          /\ \A s \in Samples : stepped[s] = 1
          /\ steps = epoch * NumBatches
    /\ InBody =>
          /\ images.samples # {}
          /\ images.shape = << Cardinality(images.samples), InputSize >>
          /\ \A s \in images.samples : stepped[s] = IF stmt = "acc" THEN 1 ELSE 0
    /\ stmt \in {"loss", "zero_grad", "backward", "step", "acc"} =>
          output.samples = images.samples

\* C6 witness: the step on a final batch smaller than batch_size has been
\* made, and it completes the epoch
C6_Witness ==
    /\ stmt = "acc"
    /\ Cardinality(images.samples) < BatchSize
    /\ dataiter = <<>>
    /\ \A s \in Samples : stepped[s] = 1

\* the training loop has been entered and has run to its end
LoopDone == KernelIdle /\ last = [cell |-> "loop", error |-> "none"]

\* the loop cell has stopped before the loop (the name `optim` is not bound)
LoopNotEntered == last = [cell |-> "loop", error |-> "NameError"]

\* what C9 says of the states of a run of the training loop
C9_Counts ==
    /\ stmt = "epoch" => stdout.lines = epoch /\ steps = epoch * NumBatches
    /\ stmt = "fetch" \/ InBody =>
          /\ stdout.lines = epoch - 1
          /\ steps <= epoch * NumBatches
    /\ stmt = "fetch" /\ dataiter = <<>> => steps = epoch * NumBatches
    /\ LoopDone =>
          /\ epoch = Epochs
          /\ steps = Epochs * NumBatches
          /\ stdout.lines = Epochs
    /\ last.cell = "loop" => LoopDone \/ LoopNotEntered \/ stmt # "idle"
    /\ LoopNotEntered => ~optim /\ KernelIdle
    /\ doc.inOrder /\ doc.pos = 6 => ~LoopNotEntered

\* C9: the training loop terminates.  A run of the loop, once entered,
\* always reaches its end; it has then made exactly epochs * len(trainloader)
\* steps and printed the training loss epochs times, and during the run
\* the loss of an epoch is printed once, after the last batch of that epoch
\* (the else branch of the inner loop).  The loop is not entered only when
\* the cell is run before the cell that imports `optim`, which does not
\* happen when the cells are run in document order.
C9_LoopTerminates == []C9_Counts /\ ((stmt # "idle") ~> LoopDone)

\* C9 witness: the loop cell has ended after its steps and prints
C9_Witness ==
    /\ LoopDone
    /\ steps = Epochs * NumBatches
    /\ stdout.lines = Epochs

\* C10: the reported training loss.  In the loop running_loss is the sum of
\* the loss values of the batches of the current epoch that have been
\* accumulated, one per batch; what is printed for an epoch is the sum of
\* the loss values of all batches of that epoch, over len(trainloader).
C10_ReportedLoss ==
    /\ stmt = "fetch" \/ InBody =>
          /\ running_loss = SumSeq(epoch_losses)
          /\ Len(epoch_losses) + Len(dataiter) + (IF InBody THEN 1 ELSE 0) = NumBatches
    /\ stmt = "epoch" /\ epoch >= 1 =>
          /\ Len(epoch_losses) = NumBatches
          /\ stdout.tail = [running_loss |-> SumSeq(epoch_losses), len |-> NumBatches]

\* C10 witness: the loss of the second epoch has been printed, and it is
\* not zero
C10_Witness ==
    /\ stmt = "epoch"
    /\ epoch = 2
    /\ stdout.tail.running_loss > 0

\* the parameter values of the model, gradients aside
Weights(m) == [k \in DOMAIN m.params |-> m.params[k].data]

\* C11: only the optimizer step updates the weights.  When the parameter
\* values bound to `model` change, either a cell has bound `model` to a new
\* network (the build cell, or the loop cell as it starts), or the step is
\* optimizer.step() (of the step cell or of the loop) and none of zero_grad,
\* the forward pass, the loss computation and backward, in the single-step
\* cells and in the loop: these leave every parameter value as it is, so the
\* weights the single-step cell prints first are the weights
\* optimizer.step() finds.
C11_OnlyStepUpdatesWeights ==
    [][Weights(model') # Weights(model) =>
          \/ /\ last'.cell \in {"build", "loop"}
             /\ pc["loop"] = "idle"
             /\ \E seed \in Seeds : model' = Sequential(seed)
          \/ /\ ~(\/ SingleZeroGrad \/ SingleForward \/ SingleLoss \/ SingleBackward
                   \/ BackwardCell \/ OptimCell \/ PredictCell
                   \/ LoopForward \/ LoopLoss \/ LoopZeroGrad \/ LoopBackward
                   \/ LoopAcc)
             /\ (StepCell \/ LoopStep)]_vars

\* C11 witness: the single-step cell has run to its end on a model the
\* optimizer holds, and its backward pass left a gradient that is not zero
C11_Witness ==
    /\ KernelIdle
    /\ last = [cell |-> "single", error |-> "none"]
    /\ optimizer = "model"
    /\ loss.used
    /\ \E k \in DOMAIN model.params : model.params[k].grad \notin {<<>>, <<0>>}

(***************************************************************************)
(* Claims about the autograd cells (checked under AutogradSpec).           *)
(***************************************************************************)
\* every parameter of the model has .grad None / has a .grad tensor
NoGrads == \A k \in DOMAIN model.params : model.params[k].grad = <<>>

AllGrads == \A k \in DOMAIN model.params : model.params[k].grad # <<>>

\* what C12 says of the states: with the model the build cell constructs,
\* the gradients are None after the forward pass and the loss and until
\* loss.backward() has run, and tensors once it has; with the cells run in
\* document order x.grad is None up to the cell that prints it and a tensor
\* after the z.backward() cell.
C12_GradStates ==
    /\ model.bound /\ ~loss.used => NoGrads
    /\ model.bound /\ loss.used => AllGrads
    /\ last.cell = "build" => NoGrads /\ loss.bound /\ ~loss.used
    /\ last = [cell |-> "backward", error |-> "none"] => AllGrads
    /\ doc.inOrder /\ doc.pos \in 1 .. 5 => x.grad = <<>>
    /\ doc.inOrder /\ doc.pos >= 6 => last.error = "none" /\ x.grad # <<>>

\* C12: gradients exist only after a backward pass.  The states are as
\* C12_GradStates says; a new tensor x has x.grad None, and x.grad goes from
\* None to a tensor only in a z.backward() that does not raise; the
\* gradients of the model go from None to tensors only in a loss.backward()
\* that does not raise.
C12_GradOnlyAfterBackward ==
    /\ []C12_GradStates
    /\ [][/\ last'.cell = "x" => x'.grad = <<>>
          /\ x.grad = <<>> /\ x'.grad # <<>>
                => last' = [cell |-> "z_backward", error |-> "none"]
          /\ model.bound /\ NoGrads /\ ~NoGrads'
                => last' = [cell |-> "backward", error |-> "none"]]_vars

\* C12 witness: all cells have run in document order; x.grad and the
\* gradients of the model are tensors, and not all zero
C12_Witness ==
    /\ doc.inOrder /\ doc.pos = 8
    /\ x.grad # <<>>
    /\ AllGrads
    /\ \E k \in DOMAIN model.params : model.params[k].grad # <<0>>

\* the gradient value after n backward passes of z = mean(x**2) at x
TimesTwoXOverN(n, data) ==
    [i \in DOMAIN data |-> FracMul(Frac(n, 1), TwoXOverN(data)[i])]

\* C14: for z = mean(x**2), z.backward() sets x.grad to 2 * x / n, element
\* by element, for every x: after the first backward pass on an x its .grad
\* is 2 * x / numel(x) (so it is after the z.backward() cell when the cells
\* are run in document order, where the cell prints the two to compare),
\* and each further pass on the same x adds 2 * x / numel(x) again.
C14_GradientOfMeanSquare ==
    /\ x.bound /\ x.grad # <<>> =>
          /\ Len(x.grad[1]) = Numel
          /\ x.grad[1] = TimesTwoXOverN(x.passes, x.data)
    /\ x.bound /\ x.passes = 1 => x.grad = << TwoXOverN(x.data) >>
    /\ doc.inOrder /\ doc.pos >= 6 =>
          /\ x.passes = 1
          /\ \A i \in 1 .. Numel : x.grad[1][i] = Frac(x.data[i], 2)

\* C14 witness: the z.backward() cell has run in document order on an x
\* whose elements differ in sign and size
C14_Witness ==
    /\ doc.inOrder /\ doc.pos = 6
    /\ x.data[1] = -1 /\ x.data[2] = 2
    /\ x.grad[1][1] = [num |-> -1, den |-> 2]
    /\ x.grad[1][2] = [num |-> 1, den |-> 1]

(***************************************************************************)
(* A further claim about the training cells (checked under TrainSpec).     *)
(***************************************************************************)
\* the sum of the gradients of the passes q with respect to parameter k, at
\* the parameters of `model`
RECURSIVE SumOfPasses(_, _)
SumOfPasses(q, k) ==
    IF q = <<>> THEN 0
    ELSE (Gradient(model, Head(q), k) + SumOfPasses(Tail(q), k)) % NVals

C16_MetadataDescribesParameters ==
    IsCheckpoint(file) =>
        LET checkpoint == TorchLoad(file)
            sd == Get(checkpoint, "state_dict").dict
            hidden == Get(checkpoint, "hidden_layers").list
            described == Network(Get(checkpoint, "input_size").int,
                                 Get(checkpoint, "output_size").int, hidden, 0)
        IN /\ Get(checkpoint, "input_size").int = InputSize
           /\ Get(checkpoint, "output_size").int = OutputSize
           /\ Compatible(described, sd)
           /\ [j \in 1 .. Len(sd) |-> sd[j].shape]
                 = [j \in 1 .. Len(sd) |-> StateDict(described)[j].shape]

\* C16 witness: the file holds a checkpoint of the [400, 200, 100] network
\* while `model` has been bound to a [512, 256, 128] network again
C16_Witness ==
    /\ KernelIdle
    /\ IsCheckpoint(file)
    /\ Get(TorchLoad(file), "hidden_layers").list = OtherLayers
    /\ model.bound
    /\ HiddenSizes(model) = TrainedLayers

====
